---- MODULE Spec2Model ----
(***************************************************************************)
(* Model of net/sixlowpan/sixlowpan_framelist.c: sixlowpan_queue_frames()  *)
(* and sixlowpan_compress_ipv6hdr().  One call of sixlowpan_queue_frames   *)
(* runs as one action up to the first point where it can wait again (the   *)
(* iob_alloc() at the top of the FRAGN loop), then one action per loop      *)
(* iteration, then one action for the code after the loop.                 *)
(*                                                                         *)
(* Frame memory is modelled byte by byte.  io_data is the written prefix   *)
(* of the IOB's buffer (element i+1 is byte i).  Bytes computed by the     *)
(* code (dispatches, fragment headers) are their values 0..255; bytes      *)
(* copied from the caller keep the identity of their source position:      *)
(* BufByte(i) for buf[i], HdrByte(j) for byte j of the IPv6+transport      *)
(* header, MacByte(k) for byte k of the MAC header written by the frame    *)
(* encoder, Uninit for a byte never written.                               *)
(***************************************************************************)
EXTENDS Integers, Sequences, FiniteSets, TLC

(***************************************************************************)
(* Program constants                                                       *)
(***************************************************************************)
CONFIG_NET_6LOWPAN_FRAMELEN == 127
CONFIG_IOB_BUFSIZE == 196
CONFIG_NET_6LOWPAN_MAX_MACTRANSMITS == 4
CONFIG_NET_6LOWPAN_COMPRESSION_THRESHOLD == 63
SIXLOWPAN_DISPATCH_IPV6 == 65
SIXLOWPAN_IPV6_HDR_LEN == 1
IPv6_HDRLEN == 40
\* sizeof(struct udp_hdr_s), sizeof(struct icmpv6_hdr_s)
UDP_HDRLEN == 8
ICMPv6_HDRLEN == 8
SIXLOWPAN_FRAG1_HDR_LEN == 4
SIXLOWPAN_FRAGN_HDR_LEN == 5
SIXLOWPAN_DISPATCH_FRAG1 == 192
SIXLOWPAN_DISPATCH_FRAGN == 224
SIXLOWPAN_DISPATCH_FRAG_MASK == 248
RIME_FRAG_DISPATCH_SIZE == 0
RIME_FRAG_TAG == 2
RIME_FRAG_OFFSET == 4
IP_PROTO_TCP == 6
IP_PROTO_UDP == 17
IP_PROTO_ICMP6 == 58
TCP_FIN == 1
TCP_ACK == 16
TCP_CTL == 63
PACKETBUF_ATTR_PACKET_TYPE_STREAM == 2
PACKETBUF_ATTR_PACKET_TYPE_STREAM_END == 3
OK == 0
E2BIG == 7
EINVAL == 22
NULL == 0

(***************************************************************************)
(* Bounds of the model                                                     *)
(***************************************************************************)
\* buflen ranges over 0..MaxBufLen and the two larger lengths below.
MaxBufLen == 80
\* The datagram of the spec's second end-to-end scenario.
ScenarioBufLen == 200
\* A datagram larger than the 11-bit datagram-size field can describe.
JumboBufLen == 2100
\* MAC header lengths returned by sixlowpan_send_hdrlen().
MinFramerHdrLen == 9
MaxFramerHdrLen == 28
\* TCP data offsets (32-bit words): 5 is the header without options.
MinTcpOffset == 5
MaxTcpOffset == 15
\* Number of IOBs in the pool (CONFIG_IOB_NBUFFERS): iob_alloc() waits when
\* none is left.
CONFIG_IOB_NBUFFERS == 34
\* Distance between the MAC header lengths of the calls that are run on.
LiveHdrStep == 7
\* Fewest bytes an external compressor writes.
MinCompWritten == 3
\* Calls made in a sequence of calls.
MaxCalls == 4

(***************************************************************************)
(* Fixed-width arithmetic                                                  *)
(***************************************************************************)
U8(x) == x % 256
U16(x) == x % 65536

RECURSIVE BitAnd(_, _)
BitAnd(a, b) ==
  IF a = 0 \/ b = 0 THEN 0
  ELSE (IF a % 2 = 1 /\ b % 2 = 1 THEN 1 ELSE 0) + 2 * BitAnd(a \div 2, b \div 2)

RECURSIVE BitOr(_, _)
BitOr(a, b) ==
  IF a = 0 THEN b
  ELSE IF b = 0 THEN a
  ELSE (IF a % 2 = 1 \/ b % 2 = 1 THEN 1 ELSE 0) + 2 * BitOr(a \div 2, b \div 2)

(***************************************************************************)
(* Memory                                                                  *)
(***************************************************************************)
Uninit == -1
BufByte(i) == 1000 + i
HdrByte(j) == 500 + j
MacByte(k) == 300 + k

\* The n bytes of the caller's buf starting at offset off.
BufBytes(off, n) == [i \in 1..n |-> BufByte(off + i - 1)]
\* The n bytes of the IPv6 + transport header starting at offset off.
HdrBytes(off, n) == [i \in 1..n |-> HdrByte(off + i - 1)]

\* n bytes that were never written.
UninitBytes(n) == [i \in 1..n |-> Uninit]

\* data with bytes stored at offset off (a memcpy into the buffer).
Poke(data, off, bytes) ==
  LET dl == Len(data)
      bl == Len(bytes)
      head == IF off <= dl THEN SubSeq(data, 1, off)
              ELSE data \o UninitBytes(off - dl)
      tail == IF off + bl < dl THEN SubSeq(data, off + bl + 1, dl) ELSE << >>
  IN head \o bytes \o tail

\* The n bytes of data starting at offset off.
Peek(data, off, n) ==
  LET dl == Len(data)
  IN IF off + n <= dl THEN SubSeq(data, off + 1, off + n)
     ELSE IF off >= dl THEN UninitBytes(n)
     ELSE SubSeq(data, off + 1, dl) \o UninitBytes(off + n - dl)

\* PUTINT16(ptr, index, value): big-endian 16-bit store.
PUTINT16(data, index, value) ==
  Poke(data, index, << BitAnd(value \div 256, 255), BitAnd(value, 255) >>)

\* GETINT16: the big-endian 16-bit word at offset index.
GETINT16(data, index) == data[index + 1] * 256 + data[index + 2]

(***************************************************************************)
(* State                                                                   *)
(***************************************************************************)
VARIABLES
  pc,               \* position of the caller: "idle", "fragn", "done",
                    \* "overrun"
  config_frag,      \* CONFIG_NET_6LOWPAN_FRAG is defined
  config_compression, \* which CONFIG_NET_6LOWPAN_COMPRESSION_* is defined:
                    \* "IPv6", "HC1" or "HC06"
  i_dgramtag,       \* ieee->i_dgramtag
  i_framelist,      \* ieee->i_framelist: an IOB id, or NULL
  iobs,             \* the IOBs handed out by iob_alloc(), by id
  destip,           \* argument: the IPv6 + transport header
  buflen,           \* argument
  destmac,          \* argument: NULL or a link address
  g_uncomp_hdrlen,  \* scratch
  g_frame_hdrlen,   \* scratch
  g_pktattrs,       \* scratch
  g_pktaddrs,       \* scratch
  framer_hdrlen,    \* local
  pktlen,           \* local
  paysize,          \* local
  outlen,           \* local
  qtail,            \* local: IOB id
  iob,              \* local: IOB id
  frag1_hdrlen,     \* local
  ret,              \* returned value
  entry_tag,        \* ieee->i_dgramtag when the current call was entered
  ncalls,           \* calls of sixlowpan_queue_frames made so far
  path,             \* branch taken by the current call: "none", "hdrfail",
                    \* "toobig", "single", "frag"
  hdr_writer,       \* the header writer the current call invoked: "none",
                    \* "ipv6", "hc1", "hc06"
  dgram_tags,       \* the tags written into the fragmented datagrams
                    \* completed so far, oldest first
  config_debug,     \* CONFIG_DEBUG_ASSERTIONS: DEBUGASSERT() is compiled in
  i_panid,          \* ieee->i_panid
  dest_panid,       \* local
  framer_seqno,     \* the frame encoder's next MAC sequence number
  enc_calls,        \* the sixlowpan_framecreate() calls of the current
                    \* call, oldest first: the frame, the PAN id passed,
                    \* the scratch the encoder saw, the length returned
  entry_iobs,       \* IOBs allocated so far when the current call was
                    \* entered
  self,             \* the thread that is running
  parked            \* the locals of the thread that is not running

vars == << pc, config_frag, config_compression, hdr_writer, i_dgramtag, i_framelist, iobs, destip, buflen,
           destmac, g_uncomp_hdrlen, g_frame_hdrlen, g_pktattrs, g_pktaddrs,
           framer_hdrlen, pktlen, paysize, outlen, qtail, iob, frag1_hdrlen,
           ret, entry_tag, ncalls, path, dgram_tags, config_debug, i_panid,
           dest_panid, framer_seqno, enc_calls, entry_iobs, self, parked >>

(***************************************************************************)
(* Inputs                                                                  *)
(***************************************************************************)
PktAttrs == {"PACKET_TYPE", "MAC_SEQNO", "MAX_MAC_TRANSMISSIONS"}
PktAddrs == {"SENDER", "RECEIVER"}
\* Link addresses: 0 is the all-zero address.
ZeroAddr == 0
NodeAddr == 1
PeerAddr == 2

IP_PROTO_OTHER == 99
TcpOffsets == MinTcpOffset..MaxTcpOffset
TCP_PSH == 8

\* The fields of the header that the code reads.  tcpoffset holds the data
\* offset in its top four bits.
TcpHdrs(flagset) ==
  { [proto |-> IP_PROTO_TCP, tcpoffset |-> 16 * o, flags |-> f] :
      o \in TcpOffsets, f \in flagset }
OtherHdrs ==
  { [proto |-> p, tcpoffset |-> 0, flags |-> 0] :
      p \in {IP_PROTO_UDP, IP_PROTO_ICMP6, IP_PROTO_OTHER} }

\* PAN ids: the one the interface has joined, another one, and the value
\* dest_panid holds before sixlowpan_src_panid() is asked.
HomePanId == 4660
OtherPanId == 22136
PAN_BROADCAST == 65535

\* What sixlowpan_src_panid() answers: the PAN id it stores through its
\* second argument, or -1 when it fails and stores nothing.
SrcPanIdFails == -1

\* What the HC1 or HC06 compressor answers: the bytes it wrote into the
\* frame and the bytes of the uncompressed headers they stand for.
NoCompressor == [written |-> 0, covered |-> 0]

BufLens == (0..MaxBufLen) \cup {ScenarioBufLen, JumboBufLen}
FramerHdrLens == MinFramerHdrLen..MaxFramerHdrLen

\* One call: the arguments, and what the frame encoder answers.
LengthInputs ==
  [ destip : TcpHdrs({TCP_ACK + TCP_PSH}) \cup OtherHdrs,
    buflen : BufLens,
    destmac : {PeerAddr},
    send_hdrlen : FramerHdrLens \cup {0 - EINVAL},
    comp : {NoCompressor},
    src_panid : {HomePanId} ]

\* ieee->i_dgramtag before the first call: a value whose two bytes differ.
InitTags == {43981}

(***************************************************************************)
(* sixlowpan_compress_ipv6hdr                                              *)
(***************************************************************************)
\* The switch with a default branch that copies 8 bytes of transport header.
ProtoSize_DefaultCopies(ipv6hdr) ==
  IF ipv6hdr.proto = IP_PROTO_TCP THEN (ipv6hdr.tcpoffset \div 16) * 4
  ELSE UDP_HDRLEN

\* protosize of the switch on ipv6hdr->proto; -1 stands for the default
\* branch, which returns without copying a transport header.
ProtoSize(ipv6hdr) ==
  IF ipv6hdr.proto = IP_PROTO_TCP THEN (ipv6hdr.tcpoffset \div 16) * 4
  ELSE IF ipv6hdr.proto = IP_PROTO_UDP THEN UDP_HDRLEN
  ELSE IF ipv6hdr.proto = IP_PROTO_ICMP6 THEN ICMPv6_HDRLEN
  ELSE -1

\* The compressor without its dispatch byte: the IPv6 header starts where
\* the dispatch belongs.
sixlowpan_compress_ipv6hdr_NoDispatch(ipv6hdr, fptr, frame_hdrlen, uncomp_hdrlen) ==
  LET f2 == Poke(fptr, frame_hdrlen, HdrBytes(0, IPv6_HDRLEN))
      h2 == frame_hdrlen + IPv6_HDRLEN
      u2 == uncomp_hdrlen + IPv6_HDRLEN
      protosize == ProtoSize(ipv6hdr)
  IN IF protosize < 0
     THEN [fptr |-> f2, frame_hdrlen |-> h2, uncomp_hdrlen |-> u2]
     ELSE [fptr |-> Poke(f2, h2, HdrBytes(u2, protosize)),
           frame_hdrlen |-> h2 + protosize,
           uncomp_hdrlen |-> u2 + protosize]

\* The writer copying the transport header from the start of the IPv6 header
\* rather than from behind it.
sixlowpan_compress_ipv6hdr_ProtoFromStart(ipv6hdr, fptr, frame_hdrlen, uncomp_hdrlen) ==
  LET f1 == Poke(fptr, frame_hdrlen, << SIXLOWPAN_DISPATCH_IPV6 >>)
      h1 == frame_hdrlen + SIXLOWPAN_IPV6_HDR_LEN
      f2 == Poke(f1, h1, HdrBytes(0, IPv6_HDRLEN))
      h2 == h1 + IPv6_HDRLEN
      u2 == uncomp_hdrlen + IPv6_HDRLEN
      protosize == ProtoSize(ipv6hdr)
  IN IF protosize < 0
     THEN [fptr |-> f2, frame_hdrlen |-> h2, uncomp_hdrlen |-> u2]
     ELSE [fptr |-> Poke(f2, h2, HdrBytes(0, protosize)),
           frame_hdrlen |-> h2 + protosize,
           uncomp_hdrlen |-> u2 + protosize]

\* The frame and the two scratch lengths after the call.
sixlowpan_compress_ipv6hdr(ipv6hdr, fptr, frame_hdrlen, uncomp_hdrlen) ==
  LET f1 == Poke(fptr, frame_hdrlen, << SIXLOWPAN_DISPATCH_IPV6 >>)
      h1 == frame_hdrlen + SIXLOWPAN_IPV6_HDR_LEN
      f2 == Poke(f1, h1, HdrBytes(0, IPv6_HDRLEN))
      h2 == h1 + IPv6_HDRLEN
      u2 == uncomp_hdrlen + IPv6_HDRLEN
      protosize == ProtoSize(ipv6hdr)
  IN IF protosize < 0
     THEN [fptr |-> f2, frame_hdrlen |-> h2, uncomp_hdrlen |-> u2]
     ELSE [fptr |-> Poke(f2, h2, HdrBytes(u2, protosize)),
           frame_hdrlen |-> h2 + protosize,
           uncomp_hdrlen |-> u2 + protosize]

(***************************************************************************)
(* The HC1 and HC06 compressors (sixlowpan_compresshdr_hc1,                *)
(* sixlowpan_compresshdr_hc06), external                                   *)
(***************************************************************************)
\* Byte j of the compressed headers an external compressor wrote.
CompByte(j) == 700 + j

\* The compressors' contract: the compressed headers are written at
\* fptr + g_frame_hdrlen, g_frame_hdrlen grows by the bytes written and
\* g_uncomp_hdrlen by the bytes of the uncompressed headers they cover.
sixlowpan_compresshdr(answer, fptr, frame_hdrlen, uncomp_hdrlen) ==
  [fptr |-> Poke(fptr, frame_hdrlen,
                 [j \in 1..answer.written |-> CompByte(j - 1)]),
   frame_hdrlen |-> frame_hdrlen + answer.written,
   uncomp_hdrlen |-> uncomp_hdrlen + answer.covered]

(***************************************************************************)
(* The frame encoder (sixlowpan_framecreate), external                     *)
(***************************************************************************)
\* Writes the MAC header at offset 0 of the IOB's buffer.
sixlowpan_framecreate(data, hdrlen) ==
  Poke(data, 0, [k \in 1..hdrlen |-> MacByte(k - 1)])

\* How far the header written for a PAN id sixlowpan_send_hdrlen() was not
\* asked about may differ in length from the one it was asked about.
MaxHdrLenSkew == 2

\* The lengths sixlowpan_framecreate() may return: the length
\* sixlowpan_send_hdrlen() returned when it is given the same PAN id, and
\* a length near it when it is given another.
FramecreateAnswers(panid, asked_panid, hdrlen) ==
  IF panid = asked_panid THEN {hdrlen}
  ELSE { v \in (hdrlen - MaxHdrLenSkew)..(hdrlen + MaxHdrLenSkew) : v >= 0 }

\* The MAC sequence number after the one given.
NextSeqno(seqno) == (seqno % 255) + 1

\* The attribute scratch after the encoder has run: a MAC sequence
\* attribute of 0 is replaced by a freshly allocated sequence number.
FramerSeqno(attrs, seqno) ==
  IF attrs["MAC_SEQNO"] = 0 THEN [attrs EXCEPT !["MAC_SEQNO"] = seqno]
  ELSE attrs

\* The attribute scratch with the MAC sequence attribute left as it is.
ClearSeqno_Keep(attrs) == attrs

\* g_pktattrs[PACKETBUF_ATTR_MAC_SEQNO] = 0.
ClearSeqno(attrs) == [attrs EXCEPT !["MAC_SEQNO"] = 0]

\* The record of one sixlowpan_framecreate() call.
EncCall(frame, panid, attrs, addrs, verify) ==
  [frame |-> frame, panid |-> panid, seqno |-> attrs["MAC_SEQNO"],
   sender |-> addrs["SENDER"], receiver |-> addrs["RECEIVER"],
   verify |-> verify]

(***************************************************************************)
(* sixlowpan_queue_frames: the pieces                                      *)
(***************************************************************************)
\* The attribute scratch left as the previous datagram wrote it.
ClearPktAttrs_Keep(attrs) == attrs

\* memset(g_pktattrs, 0, ...): every attribute of the scratch is zeroed.
ClearPktAttrs(attrs) == [a \in DOMAIN attrs |-> 0]

\* memset(g_pktaddrs, 0, ...): every address of the scratch is zeroed.
ClearPktAddrs(addrs) == [a \in DOMAIN addrs |-> ZeroAddr]

\* The classification without the test for a pure ACK.
SetPacketType_IgnoreAck(attrs, ipv6hdr) ==
  IF ipv6hdr.proto = IP_PROTO_TCP
  THEN IF BitAnd(ipv6hdr.flags, TCP_FIN) = 0
       THEN [attrs EXCEPT !["PACKET_TYPE"] = PACKETBUF_ATTR_PACKET_TYPE_STREAM]
       ELSE [attrs EXCEPT
               !["PACKET_TYPE"] = PACKETBUF_ATTR_PACKET_TYPE_STREAM_END]
  ELSE attrs

\* The TCP classification: g_pktattrs[PACKETBUF_ATTR_PACKET_TYPE] is written
\* in two branches only, and is otherwise left as it was.
SetPacketType(attrs, ipv6hdr) ==
  IF ipv6hdr.proto = IP_PROTO_TCP
  THEN IF BitAnd(ipv6hdr.flags, TCP_FIN) = 0
          /\ BitAnd(ipv6hdr.flags, TCP_CTL) # TCP_ACK
       THEN [attrs EXCEPT !["PACKET_TYPE"] = PACKETBUF_ATTR_PACKET_TYPE_STREAM]
       ELSE IF BitAnd(ipv6hdr.flags, TCP_FIN) = TCP_FIN
            THEN [attrs EXCEPT
                    !["PACKET_TYPE"] = PACKETBUF_ATTR_PACKET_TYPE_STREAM_END]
            ELSE attrs
  ELSE attrs

\* The link-layer destination: a NULL destmac selects the all-zero bcastmac.
Receiver(mac) == IF mac = NULL THEN ZeroAddr ELSE mac

\* The address scratch with the sender written and the receiver forgotten.
SetPktAddrs_NoReceiver(addrs, sender, rcvr) ==
  [addrs EXCEPT !["SENDER"] = sender]

\* rimeaddr_copy() into PACKETBUF_ADDR_SENDER and PACKETBUF_ADDR_RECEIVER.
SetPktAddrs(addrs, sender, rcvr) ==
  [addrs EXCEPT !["SENDER"] = sender, !["RECEIVER"] = rcvr]

\* The failure reported as one fixed errno.
HdrLenFailure_FixedErrno(hdrlen) == 0 - EINVAL

\* return framer_hdrlen: the value sixlowpan_send_hdrlen() answered.
HdrLenFailure(hdrlen) == hdrlen

\* The selection with the compressor used only above the threshold.
SelectWriter_AboveThreshold(len) ==
  IF config_compression # "IPv6"
     /\ len > CONFIG_NET_6LOWPAN_COMPRESSION_THRESHOLD
  THEN IF config_compression = "HC1" THEN "hc1" ELSE "hc06"
  ELSE "ipv6"

\* The header writer the build and buflen select: the configured compressor
\* from the threshold on, the IPv6 dispatch writer otherwise.
SelectWriter(len) ==
  IF config_compression # "IPv6"
     /\ len >= CONFIG_NET_6LOWPAN_COMPRESSION_THRESHOLD
  THEN IF config_compression = "HC1" THEN "hc1" ELSE "hc06"
  ELSE "ipv6"

\* The new frame kept behind the frames the list already holds.
SetFrameList_KeepOld(list, id) == IF list = NULL THEN id ELSE list

\* ieee->i_framelist = iob.
SetFrameList(list, id) == id

\* The new frame left out of the list.
LinkTail_None(pool, tail, id) == pool

\* qtail->io_flink = iob.
LinkTail(pool, tail, id) == [pool EXCEPT ![tail].io_flink = id]

\* An IOB as initialised after iob_alloc().
NewIob ==
  [io_flink |-> NULL, io_len |-> 0, io_offset |-> 0, io_pktlen |-> 0,
   io_data |-> << >>]

\* buflen > (CONFIG_NET_6LOWPAN_FRAMELEN - g_frame_hdrlen), compared as
\* size_t: a negative right-hand side converts to a value above any buflen.
NeedFragment(len, frame_hdrlen) ==
  IF CONFIG_NET_6LOWPAN_FRAMELEN - frame_hdrlen < 0 THEN FALSE
  ELSE len > CONFIG_NET_6LOWPAN_FRAMELEN - frame_hdrlen

\* pktlen = buflen + g_uncomp_hdrlen, a uint16_t.
DatagramSize(len, uncomp_hdrlen) == U16(len + uncomp_hdrlen)

\* (dispatch << 8) | pktlen
FragWord(dispatch, plen) == BitOr(dispatch * 256, plen)

\* paysize of FRAG1 without the mask: all the room of the frame.
Frag1PaySize_NoMask(frame_hdrlen) ==
  U16(CONFIG_NET_6LOWPAN_FRAMELEN - frame_hdrlen)

\* paysize = (CONFIG_NET_6LOWPAN_FRAMELEN - g_frame_hdrlen) & ~7, stored in
\* a uint16_t.
Frag1PaySize(frame_hdrlen) ==
  BitAnd(U16(CONFIG_NET_6LOWPAN_FRAMELEN - frame_hdrlen), 65528)

\* paysize of a FRAGN without the mask: all the room of the frame.
FragNPaySize_NoMask(fragn_hdrlen, len, out) ==
  LET full == U8(CONFIG_NET_6LOWPAN_FRAMELEN - fragn_hdrlen)
  IN IF len - out < full THEN len - out ELSE full

\* paysize of a FRAGN: (CONFIG_NET_6LOWPAN_FRAMELEN - fragn_hdrlen) &
\* SIXLOWPAN_DISPATCH_FRAG_MASK, cut to what is left of buf.
FragNPaySize(fragn_hdrlen, len, out) ==
  LET full == BitAnd(U8(CONFIG_NET_6LOWPAN_FRAMELEN - fragn_hdrlen),
                     SIXLOWPAN_DISPATCH_FRAG_MASK)
  IN IF len - out < full THEN len - out ELSE full

\* The offset byte in bytes rather than 8-byte units.
FragOffset_NoShift(out) == U8(out)

\* fragptr[RIME_FRAG_OFFSET] = outlen >> 3, a uint8_t.
FragOffset(out) == U8(out \div 8)

\* The tag left as it is at the end of the fragment loop.
NextTag_Keep(tag) == tag

\* The increment in a counter wider than 16 bits.
NextTag_NoWrap(tag) == tag + 1

\* ieee->i_dgramtag++, a uint16_t.
NextTag(tag) == U16(tag + 1)

\* The head's io_pktlen set to the length of the last frame only.
AddPktLen_Overwrite(total, len) == len

\* ieee->i_framelist->io_pktlen += iob->io_len, a uint16_t.
AddPktLen(total, len) == U16(total + len)

\* g_frame_hdrlen of the FRAG1 frame.
Frag1HdrLen(frame_hdrlen) == frame_hdrlen + SIXLOWPAN_FRAG1_HDR_LEN

\* fragn_hdrlen without the FRAG1 header taken off frag1_hdrlen.
FragNHdrLen_KeepsFrag1Hdr(f1_hdrlen) == U16(f1_hdrlen + SIXLOWPAN_FRAGN_HDR_LEN)

\* fragn_hdrlen of every FRAGN frame, a uint16_t.
FragNHdrLen(f1_hdrlen) ==
  U16(U16(f1_hdrlen - SIXLOWPAN_FRAG1_HDR_LEN) + SIXLOWPAN_FRAGN_HDR_LEN)

\* The FRAG1 frame built in the pre-allocated IOB: the frame encoder's
\* header, the compressed headers moved up, the FRAG1 header, the payload.
Frag1Frame(fptr, hdrlen, frame_hdrlen, plen, tag) ==
  LET d1 == sixlowpan_framecreate(fptr, hdrlen)
      d2 == Poke(d1, hdrlen + SIXLOWPAN_FRAG1_HDR_LEN,
                 Peek(d1, hdrlen, frame_hdrlen - hdrlen))
      d3 == PUTINT16(d2, hdrlen + RIME_FRAG_DISPATCH_SIZE,
                     FragWord(SIXLOWPAN_DISPATCH_FRAG1, plen))
      d4 == PUTINT16(d3, hdrlen + RIME_FRAG_TAG, tag)
      fh == Frag1HdrLen(frame_hdrlen)
  IN Poke(d4, fh, BufBytes(0, Frag1PaySize(fh)))

\* A FRAGN frame whose payload is copied from buf rather than buf + outlen.
FragNFrame_PayloadFromStart(frame1, verify, hdrlen, f1_hdrlen, plen, tag, len, out) ==
  LET d1 == sixlowpan_framecreate(<< >>, verify)
      d2 == Poke(d1, hdrlen + SIXLOWPAN_FRAGN_HDR_LEN,
                 Peek(frame1, hdrlen + SIXLOWPAN_FRAG1_HDR_LEN,
                      f1_hdrlen - hdrlen))
      d3 == PUTINT16(d2, hdrlen + RIME_FRAG_DISPATCH_SIZE,
                     FragWord(SIXLOWPAN_DISPATCH_FRAGN, plen))
      d4 == PUTINT16(d3, hdrlen + RIME_FRAG_TAG, tag)
      d5 == Poke(d4, hdrlen + RIME_FRAG_OFFSET, << FragOffset(out) >>)
      fh == FragNHdrLen(f1_hdrlen)
  IN Poke(d5, fh, BufBytes(0, FragNPaySize(fh, len, out)))

\* A FRAGN frame: the frame encoder's header, the headers copied from the
\* first frame, the FRAGN header, the payload.
FragNFrame(frame1, verify, hdrlen, f1_hdrlen, plen, tag, len, out) ==
  LET d1 == sixlowpan_framecreate(<< >>, verify)
      d2 == Poke(d1, hdrlen + SIXLOWPAN_FRAGN_HDR_LEN,
                 Peek(frame1, hdrlen + SIXLOWPAN_FRAG1_HDR_LEN,
                      f1_hdrlen - hdrlen))
      d3 == PUTINT16(d2, hdrlen + RIME_FRAG_DISPATCH_SIZE,
                     FragWord(SIXLOWPAN_DISPATCH_FRAGN, plen))
      d4 == PUTINT16(d3, hdrlen + RIME_FRAG_TAG, tag)
      d5 == Poke(d4, hdrlen + RIME_FRAG_OFFSET, << FragOffset(out) >>)
      fh == FragNHdrLen(f1_hdrlen)
  IN Poke(d5, fh, BufBytes(out, FragNPaySize(fh, len, out)))

(***************************************************************************)
(* sixlowpan_queue_frames: the actions                                     *)
(***************************************************************************)
\* From entry to the return, or to the first iob_alloc() of the FRAGN loop.
sixlowpan_queue_frames(in) ==
  /\ Len(iobs) < CONFIG_IOB_NBUFFERS
  /\ LET id == Len(iobs) + 1
         hdrlen == in.send_hdrlen
         attrs == SetPacketType(
                    [ClearPktAttrs(g_pktattrs) EXCEPT
                       !["MAX_MAC_TRANSMISSIONS"] =
                          CONFIG_NET_6LOWPAN_MAX_MACTRANSMITS],
                    in.destip)
         addrs == SetPktAddrs(ClearPktAddrs(g_pktaddrs), NodeAddr,
                              Receiver(in.destmac))
         panid == IF in.src_panid = SrcPanIdFails THEN PAN_BROADCAST
                  ELSE in.src_panid
         writer == SelectWriter(in.buflen)
         c == IF writer = "ipv6"
              THEN sixlowpan_compress_ipv6hdr(in.destip, << >>, hdrlen, 0)
              ELSE sixlowpan_compresshdr(in.comp, << >>, hdrlen, 0)
         frag == NeedFragment(in.buflen, c.frame_hdrlen)
         \* sixlowpan_framecreate() is reached: for FRAG1 or the one frame
         framed == hdrlen >= 0 /\ (frag => config_frag)
         plen == DatagramSize(in.buflen, c.uncomp_hdrlen)
         f1_hdrlen == Frag1HdrLen(c.frame_hdrlen)
         f1_paysize == Frag1PaySize(f1_hdrlen)
         f1_len == U16(f1_paysize + f1_hdrlen)
     IN /\ destip' = in.destip
        /\ buflen' = in.buflen
        /\ destmac' = in.destmac
        /\ entry_tag' = i_dgramtag
        /\ ncalls' = ncalls + 1
        /\ dest_panid' = panid
        /\ entry_iobs' = Len(iobs)
        /\ g_pktattrs' = IF framed THEN FramerSeqno(attrs, framer_seqno)
                         ELSE attrs
        /\ framer_seqno' = IF framed THEN NextSeqno(framer_seqno)
                           ELSE framer_seqno
        /\ enc_calls' = IF framed
                        THEN << EncCall(IF frag THEN "frag1" ELSE "single",
                                        panid, attrs, addrs, hdrlen) >>
                        ELSE << >>
        /\ g_pktaddrs' = addrs
        /\ framer_hdrlen' = hdrlen
        /\ hdr_writer' = IF hdrlen < 0 THEN "none" ELSE writer
        /\ iob' = id
        /\ UNCHANGED << config_frag, config_compression, i_dgramtag,
                        dgram_tags, config_debug, i_panid, self, parked >>
        /\ IF hdrlen < 0
           THEN \* sixlowpan_send_hdrlen() failed
                /\ pc' = "done"
                /\ path' = "hdrfail"
                /\ ret' = HdrLenFailure(hdrlen)
                /\ iobs' = Append(iobs, NewIob)
                /\ g_uncomp_hdrlen' = 0
                /\ g_frame_hdrlen' = 0
                /\ outlen' = 0
                /\ UNCHANGED << i_framelist, pktlen, paysize, qtail,
                                frag1_hdrlen >>
           ELSE IF frag
           THEN IF config_frag
                THEN IF f1_paysize > in.buflen
                        \/ f1_hdrlen + f1_paysize > CONFIG_IOB_BUFSIZE
                     THEN \* the memcpy of the payload leaves buf and the IOB
                          /\ pc' = "overrun"
                          /\ path' = "frag"
                          /\ ret' = ret
                          /\ iobs' = Append(iobs, NewIob)
                          /\ g_uncomp_hdrlen' = c.uncomp_hdrlen
                          /\ g_frame_hdrlen' = f1_hdrlen
                          /\ pktlen' = plen
                          /\ paysize' = f1_paysize
                          /\ outlen' = 0
                          /\ UNCHANGED << i_framelist, qtail, frag1_hdrlen >>
                     ELSE /\ pc' = "fragn"
                          /\ path' = "frag"
                          /\ ret' = ret
                          /\ iobs' = Append(iobs,
                               [NewIob EXCEPT
                                  !.io_data = Frag1Frame(c.fptr, hdrlen,
                                                 c.frame_hdrlen, plen,
                                                 i_dgramtag),
                                  !.io_len = f1_len,
                                  !.io_pktlen = f1_len])
                          /\ g_uncomp_hdrlen' = c.uncomp_hdrlen
                          /\ g_frame_hdrlen' = f1_hdrlen
                          /\ pktlen' = plen
                          /\ paysize' = f1_paysize
                          /\ outlen' = f1_paysize
                          /\ i_framelist' = SetFrameList(i_framelist, id)
                          /\ qtail' = id
                          /\ frag1_hdrlen' = f1_hdrlen
                ELSE \* fragmentation compiled out
                     /\ pc' = "done"
                     /\ path' = "toobig"
                     /\ ret' = 0 - E2BIG
                     /\ iobs' = Append(iobs, [NewIob EXCEPT !.io_data = c.fptr])
                     /\ g_uncomp_hdrlen' = c.uncomp_hdrlen
                     /\ g_frame_hdrlen' = c.frame_hdrlen
                     /\ outlen' = 0
                     /\ UNCHANGED << i_framelist, pktlen, paysize, qtail,
                                     frag1_hdrlen >>
           ELSE IF c.frame_hdrlen + in.buflen > CONFIG_IOB_BUFSIZE
           THEN \* one frame, and the memcpy of the payload leaves the IOB
                /\ pc' = "overrun"
                /\ path' = "single"
                /\ ret' = ret
                /\ iobs' = Append(iobs, NewIob)
                /\ g_uncomp_hdrlen' = c.uncomp_hdrlen
                /\ g_frame_hdrlen' = c.frame_hdrlen
                /\ outlen' = 0
                /\ UNCHANGED << i_framelist, pktlen, paysize, qtail,
                                frag1_hdrlen >>
           ELSE \* one frame
                /\ pc' = "done"
                /\ path' = "single"
                /\ ret' = OK
                /\ iobs' = Append(iobs,
                     [NewIob EXCEPT
                        !.io_data = Poke(sixlowpan_framecreate(c.fptr, hdrlen),
                                         c.frame_hdrlen,
                                         BufBytes(0, in.buflen)),
                        !.io_len = U16(in.buflen + c.frame_hdrlen),
                        !.io_pktlen = U16(in.buflen + c.frame_hdrlen)])
                /\ g_uncomp_hdrlen' = c.uncomp_hdrlen
                /\ g_frame_hdrlen' = c.frame_hdrlen
                /\ i_framelist' = SetFrameList(i_framelist, id)
                /\ outlen' = 0
                /\ UNCHANGED << pktlen, paysize, qtail, frag1_hdrlen >>

\* One iteration of the FRAGN loop.
FragN ==
  /\ pc = "fragn"
  /\ outlen < buflen
  /\ Len(iobs) < CONFIG_IOB_NBUFFERS
  /\ \E verify \in FramecreateAnswers(i_panid, dest_panid, framer_hdrlen) :
     LET id == Len(iobs) + 1
         attrs == ClearSeqno(g_pktattrs)
         fragn_hdrlen == FragNHdrLen(frag1_hdrlen)
         fn_paysize == FragNPaySize(fragn_hdrlen, buflen, outlen)
         len == U16(fn_paysize + fragn_hdrlen)
     IN /\ g_pktattrs' = FramerSeqno(attrs, framer_seqno)
        /\ framer_seqno' = NextSeqno(framer_seqno)
        /\ enc_calls' = Append(enc_calls,
                               EncCall("fragn", i_panid, attrs, g_pktaddrs,
                                       verify))
        /\ iob' = id
        /\ IF config_debug /\ verify # framer_hdrlen
           THEN \* DEBUGASSERT(verify == framer_hdrlen) stops the program
                /\ pc' = "assert"
                /\ iobs' = Append(iobs,
                     [NewIob EXCEPT
                        !.io_data = sixlowpan_framecreate(<< >>, verify)])
                /\ UNCHANGED << paysize, outlen, qtail, i_framelist >>
           ELSE IF fragn_hdrlen + fn_paysize > CONFIG_IOB_BUFSIZE
           THEN \* the memcpy of the payload leaves the IOB
                /\ pc' = "overrun"
                /\ iobs' = Append(iobs, NewIob)
                /\ paysize' = fn_paysize
                /\ UNCHANGED << outlen, qtail, i_framelist >>
           ELSE /\ pc' = "fragn"
                /\ iobs' = Append(
                     [LinkTail(iobs, qtail, id) EXCEPT
                        ![i_framelist].io_pktlen = AddPktLen(@, len)],
                     [NewIob EXCEPT
                        !.io_data = FragNFrame(iobs[i_framelist].io_data,
                                               verify, framer_hdrlen,
                                               frag1_hdrlen, pktlen,
                                               i_dgramtag, buflen, outlen),
                        !.io_len = len])
                /\ paysize' = fn_paysize
                /\ outlen' = U16(outlen + fn_paysize)
                /\ qtail' = id
                /\ UNCHANGED i_framelist
  /\ UNCHANGED << config_frag, config_compression, hdr_writer, i_dgramtag,
                  destip, buflen, destmac,
                  g_uncomp_hdrlen, g_frame_hdrlen, g_pktaddrs, framer_hdrlen,
                  pktlen, frag1_hdrlen, ret, entry_tag, ncalls, path,
                  dgram_tags, config_debug, i_panid, dest_panid, entry_iobs,
                  self, parked >>

\* The loop has ended: update the datagram tag and return.
FragEnd ==
  /\ pc = "fragn"
  /\ ~(outlen < buflen)
  /\ pc' = "done"
  /\ i_dgramtag' = NextTag(i_dgramtag)
  /\ ret' = OK
  /\ dgram_tags' = Append(dgram_tags,
                          GETINT16(iobs[i_framelist].io_data,
                                   framer_hdrlen + RIME_FRAG_TAG))
  /\ UNCHANGED << config_frag, config_compression, hdr_writer, i_framelist,
                  iobs, destip, buflen, destmac,
                  g_uncomp_hdrlen, g_frame_hdrlen, g_pktattrs, g_pktaddrs,
                  framer_hdrlen, pktlen, paysize, outlen, qtail, iob,
                  frag1_hdrlen, entry_tag, ncalls, path, config_debug,
                  i_panid, dest_panid, framer_seqno, enc_calls, entry_iobs,
                  self, parked >>

(***************************************************************************)
(* Specification: the first call on a fresh interface                      *)
(***************************************************************************)
\* The locals of a thread that has not called yet.
IdleLocals ==
  [pc |-> "idle", destip |-> [proto |-> 0, tcpoffset |-> 0, flags |-> 0],
   buflen |-> 0, destmac |-> NULL, framer_hdrlen |-> 0, pktlen |-> 0,
   paysize |-> 0, outlen |-> 0, qtail |-> NULL, iob |-> NULL,
   frag1_hdrlen |-> 0, ret |-> OK, entry_tag |-> 0, path |-> "none",
   hdr_writer |-> "none", dest_panid |-> PAN_BROADCAST, enc_calls |-> << >>,
   entry_iobs |-> 0]

InitFull(tags, schemes, debugs) ==
  /\ pc = "idle"
  /\ config_frag \in BOOLEAN
  /\ config_compression \in schemes
  /\ hdr_writer = "none"
  /\ i_dgramtag \in tags
  /\ i_framelist = NULL
  /\ iobs = << >>
  /\ destip = [proto |-> 0, tcpoffset |-> 0, flags |-> 0]
  /\ buflen = 0
  /\ destmac = NULL
  /\ g_uncomp_hdrlen = 0
  /\ g_frame_hdrlen = 0
  /\ g_pktattrs = [a \in PktAttrs |-> 0]
  /\ g_pktaddrs = [a \in PktAddrs |-> ZeroAddr]
  /\ framer_hdrlen = 0
  /\ pktlen = 0
  /\ paysize = 0
  /\ outlen = 0
  /\ qtail = NULL
  /\ iob = NULL
  /\ frag1_hdrlen = 0
  /\ ret = OK
  /\ entry_tag = 0
  /\ config_debug \in debugs
  /\ i_panid = HomePanId
  /\ dest_panid = PAN_BROADCAST
  /\ framer_seqno = 1
  /\ enc_calls = << >>
  /\ entry_iobs = 0
  /\ self = 1
  /\ parked = IdleLocals
  /\ ncalls = 0
  /\ path = "none"
  /\ dgram_tags = << >>

\* The interface's state before the first call, assertions compiled out.
InitWith(tags, schemes) == InitFull(tags, schemes, {FALSE})

Init == InitWith(InitTags, {"IPv6"})

FirstCall ==
  /\ pc = "idle"
  /\ \E in \in LengthInputs : sixlowpan_queue_frames(in)

Next == FirstCall \/ FragN \/ FragEnd

Spec == Init /\ [][Next]_vars

(***************************************************************************)
(* Specification: one call that is run on to its end                       *)
(***************************************************************************)
\* Headers from the shortest to the longest, a datagram of two frames at
\* most and one of several.
LiveInputs ==
  [ destip : TcpHdrs({TCP_ACK + TCP_PSH}) \cup OtherHdrs,
    buflen : {MaxBufLen \div 4, MaxBufLen},
    destmac : {PeerAddr},
    send_hdrlen : {MinFramerHdrLen, MinFramerHdrLen + LiveHdrStep,
                   MinFramerHdrLen + 2 * LiveHdrStep},
    comp : {NoCompressor},
    src_panid : {HomePanId} ]

LiveCall ==
  /\ pc = "idle"
  /\ \E in \in LiveInputs : sixlowpan_queue_frames(in)

NextLive == LiveCall \/ FragN \/ FragEnd

\* A call that has started is run on: the loop takes its next iteration
\* whenever iob_alloc() can hand out an IOB, and the code after the loop
\* runs once the loop has ended.
SpecLive ==
  Init /\ [][NextLive]_vars /\ WF_vars(FragN) /\ WF_vars(FragEnd)

(***************************************************************************)
(* Specification: the first call, in builds with and without a compressor  *)
(***************************************************************************)
\* Answers of an external compressor: a short and a long compressed header,
\* covering the IPv6 header alone or with an 8-byte transport header.
CompAnswers ==
  { [written |-> w, covered |-> v] :
      w \in {MinCompWritten, MinCompWritten + IPv6_HDRLEN},
      v \in {IPv6_HDRLEN, IPv6_HDRLEN + UDP_HDRLEN} }

\* Datagrams below, at and above the compression threshold.
CompInputs ==
  [ destip : TcpHdrs({TCP_ACK + TCP_PSH}) \cup OtherHdrs,
    buflen : {MaxBufLen \div 4,
              CONFIG_NET_6LOWPAN_COMPRESSION_THRESHOLD - 1,
              CONFIG_NET_6LOWPAN_COMPRESSION_THRESHOLD, MaxBufLen},
    destmac : {PeerAddr},
    send_hdrlen : {MinFramerHdrLen, MinFramerHdrLen + LiveHdrStep},
    comp : CompAnswers,
    src_panid : {HomePanId} ]

InitComp == InitWith(InitTags, {"IPv6", "HC1", "HC06"})

CompCall ==
  /\ pc = "idle"
  /\ \E in \in CompInputs : sixlowpan_queue_frames(in)

NextComp == CompCall \/ FragN \/ FragEnd

SpecComp == InitComp /\ [][NextComp]_vars

(***************************************************************************)
(* Specification: a sequence of calls on one interface                     *)
(***************************************************************************)
\* A call that fits one frame, one of two fragments, one of four.
SeqBufLens == {10, MaxBufLen, ScenarioBufLen}

SeqInputs ==
  [ destip : {[proto |-> IP_PROTO_UDP, tcpoffset |-> 0, flags |-> 0]},
    buflen : SeqBufLens,
    destmac : {PeerAddr},
    send_hdrlen : {MinFramerHdrLen, 0 - EINVAL, 0 - E2BIG},
    comp : {NoCompressor},
    src_panid : {HomePanId} ]

\* ieee->i_dgramtag before the first call: two below the wrap, or mid-range.
SeqInitTags == {65534, 43981}

InitSeq == InitWith(SeqInitTags, {"IPv6"})

\* The next call, made after the previous one has returned.
SeqCall ==
  /\ pc \in {"idle", "done"}
  /\ ncalls < MaxCalls
  /\ \E in \in SeqInputs : sixlowpan_queue_frames(in)

NextSeq == SeqCall \/ FragN \/ FragEnd

SpecSeq == InitSeq /\ [][NextSeq]_vars

(***************************************************************************)
(* Consecutive datagrams whose TCP flags and link-layer destination vary   *)
(***************************************************************************)
\* The number of datagrams queued one after another.
MaxAttrCalls == 2

\* Another neighbour's link-layer address.
OtherPeerAddr == 3

\* The flags byte of the TCP header: no flag, FIN, a pure ACK, FIN+ACK,
\* PSH+ACK, SYN, all six control flags, ACK with ECE, FIN with CWR.
AttrFlags ==
  {0, TCP_FIN, TCP_ACK, TCP_FIN + TCP_ACK, TCP_PSH + TCP_ACK, 2, TCP_CTL,
   64 + TCP_ACK, 128 + TCP_FIN}

AttrInputs ==
  [ destip : { [proto |-> IP_PROTO_TCP, tcpoffset |-> 16 * MinTcpOffset,
                flags |-> f] : f \in AttrFlags }
             \cup {[proto |-> IP_PROTO_UDP, tcpoffset |-> 0, flags |-> 0]},
    buflen : {10, MaxBufLen},
    destmac : {NULL, PeerAddr, OtherPeerAddr},
    send_hdrlen : {MinFramerHdrLen, 0 - EINVAL},
    comp : {NoCompressor},
    src_panid : {HomePanId} ]

AttrCall ==
  /\ pc \in {"idle", "done"}
  /\ ncalls < MaxAttrCalls
  /\ \E in \in AttrInputs : sixlowpan_queue_frames(in)

NextAttr == AttrCall \/ FragN \/ FragEnd

SpecAttr == Init /\ [][NextAttr]_vars

(***************************************************************************)
(* Two threads sending on one interface under the network lock             *)
(***************************************************************************)
\* The calls the two threads make together.
MaxTwoCalls == 3

\* The locals of the running thread.
Locals ==
  [pc |-> pc,
   destip |-> destip,
   buflen |-> buflen,
   destmac |-> destmac,
   framer_hdrlen |-> framer_hdrlen,
   pktlen |-> pktlen,
   paysize |-> paysize,
   outlen |-> outlen,
   qtail |-> qtail,
   iob |-> iob,
   frag1_hdrlen |-> frag1_hdrlen,
   ret |-> ret,
   entry_tag |-> entry_tag,
   path |-> path,
   hdr_writer |-> hdr_writer,
   dest_panid |-> dest_panid,
   enc_calls |-> enc_calls,
   entry_iobs |-> entry_iobs]

\* The network lock given up while a thread waits in iob_alloc().
HoldsLock_ReleasedInAlloc(locals) == FALSE

\* The thread with these locals holds the network lock: it is inside
\* sixlowpan_queue_frames(), where the only place it can be suspended is the
\* iob_alloc() of the FRAGN loop, and the caller's lock stays held there.
HoldsLock(locals) == locals.pc = "fragn"

TwoInputs ==
  [ destip : {[proto |-> IP_PROTO_UDP, tcpoffset |-> 0, flags |-> 0]},
    buflen : {10, MaxBufLen, ScenarioBufLen},
    destmac : {PeerAddr, OtherPeerAddr},
    send_hdrlen : {MinFramerHdrLen, MinFramerHdrLen + LiveHdrStep},
    comp : {NoCompressor},
    src_panid : {HomePanId} ]

\* The running thread is suspended, between two calls or in the iob_alloc()
\* of the FRAGN loop, and the other thread runs: the locals change hands,
\* the interface and the scratch are shared.
Switch ==
  /\ pc \in {"idle", "done", "fragn"}
  /\ self' = 3 - self
  /\ parked' = Locals
  /\ pc' = parked.pc
  /\ destip' = parked.destip
  /\ buflen' = parked.buflen
  /\ destmac' = parked.destmac
  /\ framer_hdrlen' = parked.framer_hdrlen
  /\ pktlen' = parked.pktlen
  /\ paysize' = parked.paysize
  /\ outlen' = parked.outlen
  /\ qtail' = parked.qtail
  /\ iob' = parked.iob
  /\ frag1_hdrlen' = parked.frag1_hdrlen
  /\ ret' = parked.ret
  /\ entry_tag' = parked.entry_tag
  /\ path' = parked.path
  /\ hdr_writer' = parked.hdr_writer
  /\ dest_panid' = parked.dest_panid
  /\ enc_calls' = parked.enc_calls
  /\ entry_iobs' = parked.entry_iobs
  /\ UNCHANGED << config_frag, config_compression, i_dgramtag, i_framelist,
                  iobs, g_uncomp_hdrlen, g_frame_hdrlen, g_pktattrs,
                  g_pktaddrs, ncalls, dgram_tags, config_debug, i_panid,
                  framer_seqno >>

\* The running thread takes the network lock and calls.
TwoCall ==
  /\ pc \in {"idle", "done"}
  /\ ~HoldsLock(parked)
  /\ ncalls < MaxTwoCalls
  /\ \E in \in TwoInputs : sixlowpan_queue_frames(in)

\* The running thread, which has the lock, goes on in the FRAGN loop.
TwoFragN == ~HoldsLock(parked) /\ FragN

TwoFragEnd == ~HoldsLock(parked) /\ FragEnd

NextTwo == TwoCall \/ TwoFragN \/ TwoFragEnd \/ Switch

SpecTwo == Init /\ [][NextTwo]_vars

(***************************************************************************)
(* One datagram on an interface whose PAN id query may fail or answer      *)
(* another PAN id than ieee->i_panid, with and without DEBUGASSERT         *)
(***************************************************************************)
PanInputs ==
  [ destip : {[proto |-> IP_PROTO_UDP, tcpoffset |-> 0, flags |-> 0]},
    buflen : {10, MaxBufLen, ScenarioBufLen},
    destmac : {PeerAddr},
    send_hdrlen : {MinFramerHdrLen, MaxFramerHdrLen},
    comp : {NoCompressor},
    src_panid : {SrcPanIdFails, HomePanId, OtherPanId} ]

InitPan == InitFull(InitTags, {"IPv6"}, BOOLEAN)

PanCall ==
  /\ pc = "idle"
  /\ \E in \in PanInputs : sixlowpan_queue_frames(in)

NextPan == PanCall \/ FragN \/ FragEnd

SpecPan == InitPan /\ [][NextPan]_vars

(***************************************************************************)
(* What the claims speak about                                             *)
(***************************************************************************)
RECURSIVE ListFrom(_, _)
\* The IOB ids reached from id along io_flink, at most fuel of them.
ListFrom(id, fuel) ==
  IF id = NULL \/ fuel = 0 THEN << >>
  ELSE << id >> \o ListFrom(iobs[id].io_flink, fuel - 1)

\* The interface's frame list, head first.
FrameList == ListFrom(i_framelist, Len(iobs))

\* The call has returned OK.
Succeeded == pc = "done" /\ ret = OK
\* The call is in, or has returned from, the fragment planner.
InFragments == path = "frag" /\ pc \in {"fragn", "done"}

\* The k-th frame of the list fl.
Frame(fl, k) == iobs[fl[k]]

\* Header length of the k-th frame of the list: everything before the
\* payload.
HeaderLenOf(k) ==
  IF path = "single" THEN g_frame_hdrlen
  ELSE IF k = 1 THEN frag1_hdrlen
  ELSE FragNHdrLen(frag1_hdrlen)

\* Payload length of the k-th frame, and of the first k frames together.
PaySizeOf(fl, k) == Frame(fl, k).io_len - HeaderLenOf(k)
RECURSIVE PaySum(_, _)
PaySum(fl, k) == IF k = 0 THEN 0 ELSE PaySizeOf(fl, k) + PaySum(fl, k - 1)

\* The payload region of the k-th frame, and of the first k frames in order.
PayloadOf(fl, k) ==
  Peek(Frame(fl, k).io_data, HeaderLenOf(k), PaySizeOf(fl, k))
RECURSIVE PayloadUpTo(_, _)
PayloadUpTo(fl, k) ==
  IF k = 0 THEN << >> ELSE PayloadUpTo(fl, k - 1) \o PayloadOf(fl, k)

\* The fields of the fragment header of the k-th frame.
FragDispatchOf(fl, k) == Frame(fl, k).io_data[framer_hdrlen + 1] \div 8
FragSizeOf(fl, k) == GETINT16(Frame(fl, k).io_data, framer_hdrlen) % 2048
FragTagOf(fl, k) ==
  GETINT16(Frame(fl, k).io_data, framer_hdrlen + RIME_FRAG_TAG)
FragOffsetOf(fl, k) ==
  Frame(fl, k).io_data[framer_hdrlen + RIME_FRAG_OFFSET + 1]

(***************************************************************************)
(* C1: after every successful call, every frame of the list has            *)
(* io_len <= CONFIG_NET_6LOWPAN_FRAMELEN.                                   *)
(***************************************************************************)
C1_FrameLenWithinCapacity ==
  LET fl == FrameList
  IN Succeeded =>
       \A k \in 1..Len(fl) :
         Frame(fl, k).io_len <= CONFIG_NET_6LOWPAN_FRAMELEN

(***************************************************************************)
(* C2: in a fragmented output every frame but the last of the list carries *)
(* a payload whose length is a multiple of 8.                              *)
(***************************************************************************)
C2_NonFinalPayloadAligned ==
  LET fl == FrameList
  IN InFragments => \A k \in 1..(Len(fl) - 1) : PaySizeOf(fl, k) % 8 = 0

\* A returned datagram of at least three fragments whose last payload is
\* not a multiple of 8.
C2_Witness ==
  LET fl == FrameList
  IN /\ Succeeded
     /\ path = "frag"
     /\ Len(fl) >= 3
     /\ PaySizeOf(fl, Len(fl)) % 8 # 0

(***************************************************************************)
(* C3: all frames of one fragmented datagram carry the tag the interface   *)
(* held at entry and the datagram size buflen + g_uncomp_hdrlen.           *)
(***************************************************************************)
C3_SameTagAndSize ==
  LET fl == FrameList
  IN InFragments =>
       \A k \in 1..Len(fl) :
         /\ FragTagOf(fl, k) = entry_tag
         /\ FragSizeOf(fl, k) = buflen + g_uncomp_hdrlen

(***************************************************************************)
(* C4: the offset byte of every FRAGN is the sum of the payload lengths of *)
(* the frames before it, divided by 8, exactly.                            *)
(***************************************************************************)
C4_OffsetIsPriorPayload ==
  LET fl == FrameList
  IN InFragments =>
       \A k \in 2..Len(fl) : FragOffsetOf(fl, k) * 8 = PaySum(fl, k - 1)

(***************************************************************************)
(* C5: the offset byte of every FRAGN, times 8, is the number of bytes of  *)
(* the uncompressed datagram carried by the earlier fragments: the         *)
(* uncompressed header bytes covered by FRAG1 plus the payload bytes.      *)
(***************************************************************************)
C5_OffsetInUncompressedDatagram ==
  LET fl == FrameList
  IN InFragments =>
       \A k \in 2..Len(fl) :
         FragOffsetOf(fl, k) * 8 = g_uncomp_hdrlen + PaySum(fl, k - 1)

(***************************************************************************)
(* C6: after a fragmented call has returned, g_uncomp_hdrlen plus the      *)
(* payload bytes of all fragments is the datagram size encoded in every    *)
(* fragment header, and outlen = buflen.                                   *)
(***************************************************************************)
C6_PayloadSumIsDatagramSize ==
  LET fl == FrameList
  IN (Succeeded /\ path = "frag") =>
       /\ outlen = buflen
       /\ \A k \in 1..Len(fl) :
            g_uncomp_hdrlen + PaySum(fl, Len(fl)) = FragSizeOf(fl, k)

(***************************************************************************)
(* C7: the payload regions of the frames, in list order, are buf[0..buflen)*)
(* byte for byte.                                                          *)
(***************************************************************************)
C7_PayloadReproducesBuf ==
  LET fl == FrameList
  IN Succeeded => PayloadUpTo(fl, Len(fl)) = BufBytes(0, buflen)

\* A returned datagram of at least three fragments, the last one not empty.
C7_Witness ==
  LET fl == FrameList
  IN /\ Succeeded
     /\ path = "frag"
     /\ Len(fl) >= 3
     /\ PaySizeOf(fl, Len(fl)) > 0

(***************************************************************************)
(* C8: a fragmented call increments ieee->i_dgramtag by exactly 1 modulo   *)
(* 2^16, once per datagram whatever the number of fragments, and no other  *)
(* call changes it; over a sequence of calls successive fragmented         *)
(* datagrams carry consecutive tags.                                       *)
(***************************************************************************)
C8_TagIncrementsOncePerDatagram ==
  /\ pc = "fragn" => i_dgramtag = entry_tag
  /\ (pc = "done" /\ path = "frag") => i_dgramtag = (entry_tag + 1) % 65536
  /\ (pc = "done" /\ path # "frag") => i_dgramtag = entry_tag
  /\ \A j \in 1..(Len(dgram_tags) - 1) :
       dgram_tags[j + 1] = (dgram_tags[j] + 1) % 65536

\* Three fragmented datagrams with a call that was not fragmented among
\* them, the tag having wrapped from 0xFFFF to 0, the last datagram in four
\* fragments.
C8_Witness ==
  /\ pc = "done"
  /\ path = "frag"
  /\ Len(dgram_tags) = 3
  /\ ncalls = 4
  /\ dgram_tags[2] = 65535
  /\ dgram_tags[3] = 0
  /\ i_dgramtag = 1
  /\ Len(ListFrom(i_framelist, CONFIG_IOB_NBUFFERS)) = 4

(***************************************************************************)
(* C9: a call that is not fragmented leaves one frame without fragment     *)
(* header: the MAC header, then at offset framer_hdrlen the dispatch byte  *)
(* of the compressor (0x41), then the header bytes.                        *)
(***************************************************************************)
C9_SingleFrameHasNoFragHeader ==
  LET fl == FrameList
  IN (Succeeded /\ path = "single") =>
       /\ Len(fl) = 1
       /\ Peek(Frame(fl, 1).io_data, 0, framer_hdrlen)
            = [k \in 1..framer_hdrlen |-> MacByte(k - 1)]
       /\ Frame(fl, 1).io_data[framer_hdrlen + 1] = SIXLOWPAN_DISPATCH_IPV6
       /\ FragDispatchOf(fl, 1) \notin { SIXLOWPAN_DISPATCH_FRAG1 \div 8,
                                        SIXLOWPAN_DISPATCH_FRAGN \div 8 }
       /\ Frame(fl, 1).io_data[framer_hdrlen + 2] = HdrByte(0)

\* A returned single frame that carries payload.
C9_Witness ==
  LET fl == FrameList
  IN /\ Succeeded
     /\ path = "single"
     /\ buflen > 0
     /\ Len(fl) = 1
     /\ Frame(fl, 1).io_len = g_frame_hdrlen + buflen

(***************************************************************************)
(* C10: the fragment planner is entered exactly when                       *)
(* buflen > CONFIG_NET_6LOWPAN_FRAMELEN - frame_hdrlen, frame_hdrlen being  *)
(* the header length after compression; otherwise the list is one frame    *)
(* with io_flink NULL, io_len = frame_hdrlen + buflen and io_pktlen =      *)
(* io_len.                                                                 *)
(***************************************************************************)
\* g_frame_hdrlen as the compression step left it.
CompressedHdrLen ==
  IF path = "frag" THEN g_frame_hdrlen - SIXLOWPAN_FRAG1_HDR_LEN
  ELSE g_frame_hdrlen

C10_FragmentIffTooLong ==
  LET fl == FrameList
  IN (config_frag /\ path \in {"single", "frag"}) =>
       /\ path = "frag" <=>
            buflen > CONFIG_NET_6LOWPAN_FRAMELEN - CompressedHdrLen
       /\ (Succeeded
           /\ buflen <= CONFIG_NET_6LOWPAN_FRAMELEN - CompressedHdrLen) =>
            /\ Len(fl) = 1
            /\ Frame(fl, 1).io_flink = NULL
            /\ Frame(fl, 1).io_len = CompressedHdrLen + buflen
            /\ Frame(fl, 1).io_pktlen = Frame(fl, 1).io_len

(***************************************************************************)
(* C11: when buflen is one byte above the single-frame threshold           *)
(* (buflen = CONFIG_NET_6LOWPAN_FRAMELEN - frame_hdrlen + 1) the output is *)
(* exactly two fragments, one FRAG1 and one FRAGN, whatever the header     *)
(* lengths.                                                                *)
(***************************************************************************)
\* buflen is one byte above what one frame can take.
OneAboveThreshold ==
  /\ path = "frag"
  /\ buflen = CONFIG_NET_6LOWPAN_FRAMELEN - CompressedHdrLen + 1

UdpScenario ==
  /\ Succeeded
  /\ path = "frag"
  /\ framer_hdrlen = 11
  /\ destip.proto = IP_PROTO_UDP
  /\ buflen = 200

C12_ScenarioTwoFrames ==
  LET fl == FrameList
  IN UdpScenario =>
       /\ Len(fl) = 2
       /\ FragSizeOf(fl, 1) = 248
       /\ PaySizeOf(fl, 1) = 56
       /\ FragOffsetOf(fl, 2) = 7
       /\ PaySizeOf(fl, 2) = 144

(***************************************************************************)
(* C12, amended: the call of the scenario produces 4 frames: FRAG1 with    *)
(* size field 248 carrying 56 payload bytes, then three FRAGN with size    *)
(* field 248 and offsets 7, 14 and 21 carrying 56, 56 and 32 bytes.        *)
(***************************************************************************)
C12_ScenarioFourFrames ==
  LET fl == FrameList
  IN UdpScenario =>
       /\ Len(fl) = 4
       /\ \A k \in 1..4 : FragSizeOf(fl, k) = 248
       /\ FragDispatchOf(fl, 1) = SIXLOWPAN_DISPATCH_FRAG1 \div 8
       /\ \A k \in 2..4 :
            FragDispatchOf(fl, k) = SIXLOWPAN_DISPATCH_FRAGN \div 8
       /\ << PaySizeOf(fl, 1), PaySizeOf(fl, 2), PaySizeOf(fl, 3),
             PaySizeOf(fl, 4) >> = << 56, 56, 56, 32 >>
       /\ << FragOffsetOf(fl, 2), FragOffsetOf(fl, 3), FragOffsetOf(fl, 4) >>
            = << 7, 14, 21 >>

\* The call of the scenario has returned, its last frame filled to 32 bytes.
C12_Witness ==
  /\ UdpScenario
  /\ pktlen = 248
  /\ outlen = 200
  /\ paysize = 32

(***************************************************************************)
(* C13: at return from a successful call, and after every append of the    *)
(* fragment loop, the head frame's io_pktlen is the sum of io_len over the *)
(* frames linked in ieee->i_framelist, and every other frame of the list   *)
(* has io_pktlen = 0.                                                      *)
(***************************************************************************)
RECURSIVE LenSum(_, _)
\* io_len summed over the first k frames of the list fl.
LenSum(fl, k) == IF k = 0 THEN 0 ELSE Frame(fl, k).io_len + LenSum(fl, k - 1)

C13_HeadPktlenIsSumOfLens ==
  LET fl == FrameList
  IN (i_framelist # NULL /\ pc \in {"fragn", "done"}) =>
       /\ Frame(fl, 1).io_pktlen = LenSum(fl, Len(fl))
       /\ \A k \in 2..Len(fl) : Frame(fl, k).io_pktlen = 0

\* A returned list of at least three frames.
C13_Witness ==
  LET fl == FrameList
  IN /\ Succeeded
     /\ path = "frag"
     /\ Len(fl) >= 3
     /\ Frame(fl, 1).io_pktlen > Frame(fl, 1).io_len + Frame(fl, 2).io_len

(***************************************************************************)
(* C14: the frame list is in transmission order: the head is the FRAG1     *)
(* frame, every other frame is a FRAGN, each new frame is linked after the *)
(* previous tail, the last frame's io_flink is NULL, and the FRAGN offsets *)
(* are strictly increasing along the list.                                 *)
(***************************************************************************)
C14_ListInTransmissionOrder ==
  LET fl == FrameList
      n == Len(fl)
  IN InFragments =>
       /\ n >= 1
       /\ FragDispatchOf(fl, 1) = SIXLOWPAN_DISPATCH_FRAG1 \div 8
       /\ \A k \in 2..n :
            FragDispatchOf(fl, k) = SIXLOWPAN_DISPATCH_FRAGN \div 8
       /\ \A k \in 1..(n - 1) : fl[k + 1] = fl[k] + 1
       /\ qtail = fl[n]
       /\ Frame(fl, n).io_flink = NULL
       /\ \A k \in 2..(n - 1) : FragOffsetOf(fl, k) < FragOffsetOf(fl, k + 1)

(***************************************************************************)
(* C15: every call that enters the fragment loop terminates: each FRAGN    *)
(* carries at least one payload byte, and the loop is left, with           *)
(* outlen = buflen, and the call returns.                                  *)
(***************************************************************************)
C15_FragmentLoopTerminates ==
  /\ [](InFragments =>
          LET fl == FrameList
          IN \A k \in 2..Len(fl) : PaySizeOf(fl, k) >= 1)
  /\ (pc = "fragn") ~> (pc = "done" /\ outlen = buflen)

(***************************************************************************)
(* C16: in the first 16-bit word of every fragment header the top five     *)
(* bits are the fragment dispatch (0b11000 for FRAG1, 0b11100 for FRAGN)   *)
(* and the low 11 bits are buflen + g_uncomp_hdrlen; the size never alters *)
(* the dispatch bits.                                                      *)
(***************************************************************************)
C16_DispatchAndSizeBits ==
  LET fl == FrameList
  IN InFragments =>
       \A k \in 1..Len(fl) :
         /\ GETINT16(Frame(fl, k).io_data, framer_hdrlen) \div 2048
              = IF k = 1 THEN SIXLOWPAN_DISPATCH_FRAG1 \div 8
                ELSE SIXLOWPAN_DISPATCH_FRAGN \div 8
         /\ GETINT16(Frame(fl, k).io_data, framer_hdrlen) % 2048
              = buflen + g_uncomp_hdrlen

(***************************************************************************)
(* C17: when sixlowpan_send_hdrlen() returns a negative value, the call    *)
(* returns exactly that value, creates no frame header, does not modify    *)
(* ieee->i_framelist and does not change the datagram tag.                 *)
(***************************************************************************)
C17_HdrLenFailurePropagates ==
  [][ (pc \in {"idle", "done"} /\ framer_hdrlen' < 0) =>
        /\ pc' = "done"
        /\ ret' = framer_hdrlen'
        /\ iobs'[iob'].io_data = << >>
        /\ SubSeq(iobs', 1, Len(iobs)) = iobs
        /\ i_framelist' = i_framelist
        /\ i_dgramtag' = i_dgramtag ]_vars

\* A call that failed with the second errno, after a fragmented datagram had
\* been queued.
C17_Witness ==
  /\ pc = "done"
  /\ path = "hdrfail"
  /\ ret = 0 - E2BIG
  /\ i_framelist # NULL
  /\ Len(dgram_tags) >= 1

(***************************************************************************)
(* C18: after any call that returns a failure (sixlowpan_send_hdrlen()     *)
(* failed, or the datagram is too big and fragmentation is compiled out),  *)
(* ieee->i_framelist is empty, whatever it held before the call.           *)
(***************************************************************************)
C18_FailureLeavesListEmpty ==
  (pc = "done" /\ ret < 0) => i_framelist = NULL

(***************************************************************************)
(* C19: with fragmentation compiled out, a call with                       *)
(* buflen > CONFIG_NET_6LOWPAN_FRAMELEN - frame_hdrlen returns -E2BIG,     *)
(* links no frame into ieee->i_framelist and leaves the datagram tag       *)
(* unchanged; a call with buflen <= CONFIG_NET_6LOWPAN_FRAMELEN -          *)
(* frame_hdrlen succeeds with one frame.                                   *)
(***************************************************************************)
C19_TooBigWithoutFragmentation ==
  LET fl == FrameList
  IN (~config_frag /\ pc = "done" /\ path # "hdrfail") =>
       IF buflen > CONFIG_NET_6LOWPAN_FRAMELEN - g_frame_hdrlen
       THEN /\ ret = 0 - E2BIG
            /\ i_framelist = NULL
            /\ i_dgramtag = entry_tag
       ELSE /\ ret = OK
            /\ Len(fl) = 1
            /\ Frame(fl, 1).io_len = g_frame_hdrlen + buflen

(***************************************************************************)
(* C20: a datagram whose proto is not TCP, UDP or ICMPv6 is passed through *)
(* by the uncompressed writer and the call succeeds: the frame holds the   *)
(* dispatch byte and the 40-byte IPv6 header but no transport header, so   *)
(* frame_hdrlen = framer_hdrlen + 41 and g_uncomp_hdrlen = 40, whatever    *)
(* the configured compression scheme and threshold.                        *)
(***************************************************************************)
\* The current call got past sixlowpan_send_hdrlen() with a datagram of
\* unrecognised proto.
UnknownProto ==
  /\ pc \in {"fragn", "done"}
  /\ path \in {"single", "frag", "toobig"}
  /\ destip.proto \notin {IP_PROTO_TCP, IP_PROTO_UDP, IP_PROTO_ICMP6}

\* What the uncompressed writer leaves for such a datagram.
PassedThrough ==
  LET off == framer_hdrlen
               + (IF path = "frag" THEN SIXLOWPAN_FRAG1_HDR_LEN ELSE 0)
  IN /\ CompressedHdrLen = framer_hdrlen + SIXLOWPAN_IPV6_HDR_LEN + IPv6_HDRLEN
     /\ g_uncomp_hdrlen = IPv6_HDRLEN
     /\ (pc = "done" /\ path # "toobig") => ret = OK
     /\ path # "toobig" =>
          Peek(iobs[i_framelist].io_data, off,
               SIXLOWPAN_IPV6_HDR_LEN + IPv6_HDRLEN)
            = << SIXLOWPAN_DISPATCH_IPV6 >> \o HdrBytes(0, IPv6_HDRLEN)

C20_UnknownProtoPassThrough ==
  UnknownProto => (hdr_writer = "ipv6" /\ PassedThrough)

(***************************************************************************)
(* C20, amended: a datagram whose proto is not TCP, UDP or ICMPv6 is       *)
(* passed through as above when the uncompressed writer is selected, that  *)
(* is when no compressor is configured or buflen is below the compression  *)
(* threshold; with HC1 or HC06 configured and buflen at or above the       *)
(* threshold it is handed to the configured compressor.                    *)
(***************************************************************************)
C20_UnknownProtoPassThroughIfUncompressed ==
  UnknownProto =>
    /\ hdr_writer = "ipv6" <=>
         (config_compression = "IPv6"
          \/ buflen < CONFIG_NET_6LOWPAN_COMPRESSION_THRESHOLD)
    /\ hdr_writer = "ipv6" => PassedThrough

\* A build with HC06 has passed a short datagram of unrecognised proto
\* through in one frame.
C20_Witness ==
  /\ UnknownProto
  /\ Succeeded
  /\ path = "single"
  /\ config_compression = "HC06"
  /\ hdr_writer = "ipv6"
  /\ buflen > 0

C22_SenderAndReceiver ==
  ncalls > 0 =>
    LET rcvr == IF destmac = NULL THEN ZeroAddr ELSE destmac
    IN /\ g_pktaddrs["SENDER"] = NodeAddr
       /\ g_pktaddrs["RECEIVER"] = rcvr
       /\ \A i \in DOMAIN enc_calls :
            /\ enc_calls[i].sender = NodeAddr
            /\ enc_calls[i].receiver = rcvr

\* A broadcast datagram, queued second on the interface, was fragmented and
\* the encoder was invoked for FRAG1 and a FRAGN with the all-zero receiver.
C22_Witness ==
  /\ ncalls = 2
  /\ pc = "done"
  /\ destmac = NULL
  /\ Len(enc_calls) >= 2
  /\ enc_calls[2].frame = "fragn"
  /\ enc_calls[2].receiver = ZeroAddr
  /\ enc_calls[2].sender = NodeAddr

\* The length of the transport header the uncompressed writer copies, as the
\* specification states it.
TransportHdrLen(h) ==
  IF h.proto \in {IP_PROTO_UDP, IP_PROTO_ICMP6} THEN 8
  ELSE IF h.proto = IP_PROTO_TCP THEN 4 * (h.tcpoffset \div 16)
  ELSE 0

(***************************************************************************)
(* C23: every call starts from a clean scratch, whatever the calls before  *)
(* it left there.  On each step that enters sixlowpan_queue_frames: the    *)
(* max-MAC-transmissions attribute is the configured value; the packet     *)
(* type is zero unless this datagram's own TCP flags set it; the MAC       *)
(* sequence attribute is zero when the encoder is first invoked and is     *)
(* afterwards either zero or the number the encoder allocated for this     *)
(* frame; the first encoder invocation is determined by this call's        *)
(* arguments and the interface state alone; a call that fails before the   *)
(* header writer runs leaves uncomp_hdrlen = 0 and frame_hdrlen = 0, and   *)
(* any other call leaves the lengths of this datagram's own headers.       *)
(***************************************************************************)
C23_CleanScratchPerCall ==
  [][ ncalls' = ncalls + 1 =>
        LET tcp == destip'.proto = IP_PROTO_TCP
            rcvr == IF destmac' = NULL THEN ZeroAddr ELSE destmac'
        IN /\ g_pktattrs'["MAX_MAC_TRANSMISSIONS"] =
                CONFIG_NET_6LOWPAN_MAX_MACTRANSMITS
           /\ (~tcp \/ destip'.flags % (TCP_CTL + 1) = TCP_ACK)
                => g_pktattrs'["PACKET_TYPE"] = 0
           /\ g_pktattrs'["MAC_SEQNO"] \in {0, framer_seqno}
           /\ g_pktaddrs' = [a \in PktAddrs |->
                               IF a = "SENDER" THEN NodeAddr ELSE rcvr]
           /\ enc_calls' # << >> =>
                /\ Len(enc_calls') = 1
                /\ enc_calls'[1] =
                     [frame |-> IF path' = "frag" THEN "frag1" ELSE "single",
                      panid |-> dest_panid', seqno |-> 0,
                      sender |-> NodeAddr, receiver |-> rcvr,
                      verify |-> framer_hdrlen']
           /\ IF path' = "hdrfail"
              THEN g_uncomp_hdrlen' = 0 /\ g_frame_hdrlen' = 0
              ELSE /\ g_uncomp_hdrlen' = IPv6_HDRLEN + TransportHdrLen(destip')
                   /\ g_frame_hdrlen' =
                        framer_hdrlen' + SIXLOWPAN_IPV6_HDR_LEN
                        + g_uncomp_hdrlen'
                        + (IF path' = "frag" THEN SIXLOWPAN_FRAG1_HDR_LEN
                           ELSE 0) ]_vars

\* The second datagram on the interface is a UDP one, queued after a call
\* that left a MAC sequence number in the scratch: the encoder saw a cleared
\* sequence attribute and allocated the next number.
C23_Witness ==
  /\ ncalls = 2
  /\ destip.proto = IP_PROTO_UDP
  /\ Len(enc_calls) >= 1
  /\ enc_calls[1].seqno = 0
  /\ g_pktattrs["MAC_SEQNO"] >= 2
  /\ g_pktattrs["PACKET_TYPE"] = 0

C25_FragmentsShareOnePanId ==
  \A i, j \in DOMAIN enc_calls : enc_calls[i].panid = enc_calls[j].panid

(***************************************************************************)
(* C30: whenever the frame encoder is invoked for a FRAGN frame, the MAC   *)
(* sequence attribute it finds is 0: it never sees the sequence number     *)
(* allocated for an earlier fragment of the datagram.                      *)
(***************************************************************************)
C30_FragNSeesClearedSeqno ==
  \A i \in DOMAIN enc_calls :
    enc_calls[i].frame = "fragn" => enc_calls[i].seqno = 0

\* FRAG1 and two FRAGN frames were framed: each time the encoder found the
\* attribute cleared and left a newly allocated number in it.
C30_Witness ==
  /\ pc = "done"
  /\ Len(enc_calls) = 3
  /\ enc_calls[1].frame = "frag1"
  /\ enc_calls[2].frame = "fragn" /\ enc_calls[2].seqno = 0
  /\ enc_calls[3].frame = "fragn" /\ enc_calls[3].seqno = 0
  /\ g_pktattrs["MAC_SEQNO"] = 3

(***************************************************************************)
(* C26: when the uncompressed IPv6 dispatch writer has run, uncomp_hdrlen  *)
(* is 40 + protosize and the headers in the frame are mac_hdrlen + 1 + 40  *)
(* + protosize long (protosize: 8 for UDP and ICMPv6, 4 * (tcpoffset >> 4) *)
(* for TCP, 0 for any other proto), so that frame_hdrlen - mac_hdrlen =    *)
(* uncomp_hdrlen + 1; and the frame holds the dispatch byte followed by    *)
(* the first uncomp_hdrlen bytes of the input header.                      *)
(***************************************************************************)
C26_UncompressedWriterLayout ==
  (hdr_writer = "ipv6" /\ path \in {"single", "frag", "toobig"}) =>
    LET u == IPv6_HDRLEN + TransportHdrLen(destip)
        off == framer_hdrlen
                 + (IF path = "frag" THEN SIXLOWPAN_FRAG1_HDR_LEN ELSE 0)
        first == IF path = "toobig" THEN iob ELSE i_framelist
    IN /\ g_uncomp_hdrlen = u
       /\ CompressedHdrLen = framer_hdrlen + 1 + u
       /\ CompressedHdrLen - framer_hdrlen = g_uncomp_hdrlen + 1
       /\ pc \in {"fragn", "done"} =>
            /\ iobs[first].io_data[off + 1] = SIXLOWPAN_DISPATCH_IPV6
            /\ \A j \in 1..u : iobs[first].io_data[off + 1 + j] = HdrByte(j - 1)

\* A TCP datagram whose header carries options went out in one frame.
C26_Witness ==
  /\ pc = "done"
  /\ path = "single"
  /\ hdr_writer = "ipv6"
  /\ destip.proto = IP_PROTO_TCP
  /\ destip.tcpoffset = 16 * (MinTcpOffset + 1)
  /\ g_uncomp_hdrlen = IPv6_HDRLEN + 4 * (MinTcpOffset + 1)
  /\ i_framelist # NULL

(***************************************************************************)
(* C27: a call that got the MAC header size runs exactly one header        *)
(* writer, and the writer starts at the offset that size gave to           *)
(* frame_hdrlen: the configured compressor (HC1 or HC06) when compression  *)
(* is configured and buflen is at or above the compression threshold, the  *)
(* uncompressed IPv6 dispatch writer otherwise, in particular when         *)
(* compression is configured and buflen is below the threshold.            *)
(***************************************************************************)
C27_OneWriterBySchemeAndThreshold ==
  path \in {"single", "frag", "toobig"} =>
    LET compressed ==
          /\ config_compression \in {"HC1", "HC06"}
          /\ buflen >= CONFIG_NET_6LOWPAN_COMPRESSION_THRESHOLD
        off == framer_hdrlen
                 + (IF path = "frag" THEN SIXLOWPAN_FRAG1_HDR_LEN ELSE 0)
        first == IF path = "toobig" THEN iob ELSE i_framelist
    IN /\ compressed =>
            hdr_writer = (IF config_compression = "HC1" THEN "hc1"
                          ELSE "hc06")
       /\ ~compressed => hdr_writer = "ipv6"
       /\ CompressedHdrLen > framer_hdrlen
       /\ pc \in {"fragn", "done"} =>
            iobs[first].io_data[off + 1] =
              (IF hdr_writer = "ipv6" THEN SIXLOWPAN_DISPATCH_IPV6
               ELSE CompByte(0))

\* A build with HC1 handled a datagram of exactly the threshold length with
\* the compressor, in one frame.
C27_Witness ==
  /\ pc = "done"
  /\ path = "single"
  /\ config_compression = "HC1"
  /\ buflen = CONFIG_NET_6LOWPAN_COMPRESSION_THRESHOLD
  /\ hdr_writer = "hc1"
  /\ iobs[i_framelist].io_data[framer_hdrlen + 1] = CompByte(0)

(***************************************************************************)
(* C28: in the FRAG1 frame the 4-byte fragment header sits at offset       *)
(* mac_hdrlen and the headers the compression step wrote follow it         *)
(* unchanged at mac_hdrlen + 4; the payload is the first paysize bytes of  *)
(* buf, where paysize is capacity - frame_hdrlen (FRAG1 header included)   *)
(* rounded down to a multiple of 8, and paysize < buflen.                  *)
(***************************************************************************)
C28_Frag1Layout ==
  path = "frag" =>
    LET built == i_framelist # NULL
        p1 == IF built THEN iobs[i_framelist].io_len - g_frame_hdrlen
              ELSE paysize
        u == IPv6_HDRLEN + TransportHdrLen(destip)
    IN /\ p1 = ((CONFIG_NET_6LOWPAN_FRAMELEN - g_frame_hdrlen) \div 8) * 8
       /\ p1 < buflen
       /\ built =>
            LET d == iobs[i_framelist].io_data
            IN /\ GETINT16(d, framer_hdrlen + RIME_FRAG_TAG) = entry_tag
               /\ g_frame_hdrlen =
                    framer_hdrlen + SIXLOWPAN_FRAG1_HDR_LEN + 1 + u
               /\ d[framer_hdrlen + SIXLOWPAN_FRAG1_HDR_LEN + 1] =
                    SIXLOWPAN_DISPATCH_IPV6
               /\ \A j \in 1..u :
                    d[framer_hdrlen + SIXLOWPAN_FRAG1_HDR_LEN + 1 + j] =
                      HdrByte(j - 1)
               /\ \A j \in 1..p1 : d[g_frame_hdrlen + j] = BufByte(j - 1)

(***************************************************************************)
(* C29: every FRAGN frame has header length frag1_hdrlen + 1 and, within   *)
(* its first io_len bytes, consists of the MAC header, the 5-byte FRAGN    *)
(* header, a byte-for-byte copy of FRAG1's compressed headers and then its *)
(* own payload bytes from buf; the four bytes of FRAG1's payload that the  *)
(* header copy brings along are overwritten by the payload or lie beyond   *)
(* io_len.  The property is stated of the frame linked last, which every   *)
(* FRAGN frame is in the state after the iteration that built it.          *)
(***************************************************************************)
\* The payload bytes carried by the frames before the k-th.
RECURSIVE PayloadBefore(_, _)
PayloadBefore(fl, k) ==
  IF k <= 1 THEN 0
  ELSE PayloadBefore(fl, k - 1) + Frame(fl, k - 1).io_len
       - (IF k = 2 THEN frag1_hdrlen ELSE frag1_hdrlen + 1)

C31_TagChangesOnlyAfterLastFragment ==
  [][ /\ i_dgramtag' # i_dgramtag =>
           /\ pc = "fragn" /\ pc' = "done"
           /\ path = "frag"
           /\ ret' = OK
           /\ outlen >= buflen
           /\ qtail = iob
           /\ iobs[qtail].io_flink = NULL
           /\ iobs' = iobs
      /\ (pc = "fragn" /\ pc' = "done") => i_dgramtag' # i_dgramtag
      /\ (ncalls' = ncalls + 1 /\ pc' = "done") =>
           /\ path' \in {"single", "hdrfail", "toobig"}
           /\ i_dgramtag' = i_dgramtag ]_vars

\* After one fragmented datagram had advanced the tag, two calls that were
\* not fragmented returned, the last one with a single frame: the tag is
\* still the one the fragmented call left.
C31_Witness ==
  /\ pc = "done"
  /\ path = "single"
  /\ ncalls = 3
  /\ Len(dgram_tags) = 1
  /\ i_dgramtag = (dgram_tags[1] + 1) % 65536
  /\ i_dgramtag = entry_tag

(***************************************************************************)
(* C32: after a successful call ieee->i_framelist holds exactly the frames *)
(* the call allocated, each once, in the order of allocation, ending in a  *)
(* frame without successor; the frames allocated before the call,          *)
(* among them those an earlier datagram left on the list, are not on the   *)
(* list any more and are still allocated.                                  *)
(***************************************************************************)
C32_ListIsThisCallsFrames ==
  Succeeded =>
    LET fl == FrameList
        n == Len(iobs) - entry_iobs
    IN /\ n >= 1
       /\ fl = [k \in 1..n |-> entry_iobs + k]
       /\ iobs[fl[Len(fl)]].io_flink = NULL
       /\ \A id \in 1..entry_iobs :
            /\ id \in DOMAIN iobs
            /\ \A k \in 1..Len(fl) : fl[k] # id

\* A second fragmented datagram was queued while the frames of the first
\* were still on the list.
C32_Witness ==
  /\ Succeeded
  /\ path = "frag"
  /\ Len(dgram_tags) = 2
  /\ entry_iobs >= 2
  /\ Len(iobs) - entry_iobs >= 2
  /\ i_framelist = entry_iobs + 1

(***************************************************************************)
(* C33: buffer accounting.  When a call has returned OK, the buffers it    *)
(* allocated are as many as the frames on the list.  When it has returned  *)
(* a failure (the MAC header query failed, or -E2BIG with fragmentation    *)
(* compiled out), it has allocated exactly one buffer, which is still      *)
(* allocated, is not the head of the list, is not on the list and is no    *)
(* buffer's successor.                                                     *)
(***************************************************************************)
C33_BufferAccounting ==
  pc = "done" =>
    LET fl == FrameList
        n == Len(iobs) - entry_iobs
    IN IF ret = OK
       THEN /\ path \in {"single", "frag"}
            /\ n = Len(fl)
       ELSE /\ path \in {"hdrfail", "toobig"}
            /\ n = 1
            /\ iob = Len(iobs)
            /\ i_framelist # iob
            /\ \A k \in 1..Len(fl) : fl[k] # iob
            /\ \A id \in DOMAIN iobs : iobs[id].io_flink # iob

\* With fragmentation compiled out, a datagram too long for one frame was
\* refused after an earlier call had queued a frame: the refused call's one
\* buffer is on no list.
C33_Witness ==
  /\ pc = "done"
  /\ path = "toobig"
  /\ ret = 0 - E2BIG
  /\ i_framelist # NULL
  /\ Len(iobs) = entry_iobs + 1
  /\ entry_iobs >= 1

(***************************************************************************)
(* C34: two threads send on one interface, each holding the network lock   *)
(* for its whole call, the waits in iob_alloc() between fragments          *)
(* included.  A thread inside the fragment loop never finds the other      *)
(* inside a call; the datagram tag is the one it read on entry and every   *)
(* fragment built so far carries it; the list holds this call's frames and *)
(* no others; and the scratch holds what this call wrote.                  *)
(***************************************************************************)
C34_CallsDoNotInterfere ==
  pc = "fragn" =>
    LET fl == FrameList
        n == Len(iobs) - entry_iobs
    IN /\ parked.pc \in {"idle", "done"}
       /\ i_dgramtag = entry_tag
       /\ fl = [k \in 1..n |-> entry_iobs + k]
       /\ \A k \in 1..Len(fl) :
            /\ FragTagOf(fl, k) = entry_tag
            /\ FragSizeOf(fl, k) = pktlen
       /\ g_frame_hdrlen = frag1_hdrlen
       /\ g_uncomp_hdrlen = pktlen - buflen
       /\ g_pktaddrs["RECEIVER"] = destmac
       /\ g_pktattrs["MAC_SEQNO"] = (framer_seqno - 1)

\* The second thread is inside the fragment loop with two of its frames
\* linked, after the first thread has completed a fragmented datagram.
C34_Witness ==
  /\ self = 2
  /\ pc = "fragn"
  /\ outlen < buflen
  /\ Len(FrameList) >= 2
  /\ parked.pc = "done"
  /\ parked.path = "frag"
  /\ entry_tag = (parked.entry_tag + 1) % 65536

=============================================================================
